---- MODULE Spec2Model ----
(***************************************************************************)
(* Quicksort benchmark of riscv_tests/qsort/qsort_main.c: the iterative    *)
(* median-of-three quicksort `sort` with its explicit pointer stack and    *)
(* the `insertion_sort` it hands small subarrays to.                       *)
(*                                                                         *)
(* Pointers into the sequence are modelled as their offset from `arr`      *)
(* (l = arr+1 is the offset 1), so that p[-1] is the element at offset     *)
(* p-1 and *p the element at offset p.  The sequence itself is a TLA+      *)
(* sequence, so the element at offset p is arr[p+1].                       *)
(***************************************************************************)
EXTENDS Integers, Sequences, FiniteSets

INSERTION_THRESHOLD == 10

NSTACK == 50

\* Content of a stack slot that was never written (indeterminate in C).
NoPtr == -1

\* Bounds of the inputs.
MaxShort == 5
MaxVal == 2
MaxLen == 24
MaxMod == 3

VARIABLES
  n, arr,                               \* sort's parameters
  ir, l, stack, stackp,                 \* sort's locals
  i, j, a,                              \* locals of the partitioning block
  ins_n, ins_arr, ins_i, ins_j, value,  \* insertion_sort's parameters, locals
  pc,                                   \* position in the code
  arr0,                                 \* history: the sequence at call entry
  pre,                                  \* history: the sequence before the last pivot selection
  ent,                                  \* history: the sequence at the last insertion_sort entry
  tag, vtag,                            \* history: entry offset of each element during insertion_sort
  pend                                  \* history: the pairs <<l, ir>> pushed and not yet popped, oldest first

vars == <<n, arr, ir, l, stack, stackp, i, j, a,
          ins_n, ins_arr, ins_i, ins_j, value, pc, arr0, pend, pre, ent, tag, vtag>>

-----------------------------------------------------------------------------
(* Inputs *)

\* Every sequence of at most MaxShort values of 0..MaxVal.
ShortInputs == UNION { [1..k -> 0..MaxVal] : k \in 0..MaxShort }

\* x |-> (p*x + q*x*x) mod m: all-equal (p = q = 0), strictly increasing
\* (m = k+1, p = 1), strictly decreasing (m = k+1, p = k), sawtooth and
\* scrambled sequences, with many duplicates when m is small.
Pattern(k, m, p, q) == [x \in 1..k |-> (p * x + q * x * x) % m]

PatternInputs ==
  UNION { UNION { { Pattern(k, m, p, q) : p \in 0..(m-1), q \in 0..(m-1) }
                  : m \in (1..MaxMod) \cup {k+1} }
          : k \in 0..MaxLen }

\* The median-of-three adversary: at every partition the pivot is the second
\* smallest element of the subarray, so the split is as uneven as it can be.
RECURSIVE KillerFill(_, _, _, _)
KillerFill(f, lo, hi, v) ==
  IF hi - lo < INSERTION_THRESHOLD
  THEN [x \in DOMAIN f |-> IF x \in lo..hi THEN v + (x - lo) ELSE f[x]]
  ELSE LET g == KillerFill([f EXCEPT ![lo] = v, ![lo+1] = v + 1], lo + 2, hi, v + 2)
           k == (lo + hi) \div 2
       IN  [g EXCEPT ![k] = g[lo+1], ![lo+1] = g[k]]

KillerInputs == { KillerFill([x \in 1..k |-> 0], 1, k, 1) : k \in 0..MaxLen }

Inputs == ShortInputs \cup PatternInputs \cup KillerInputs

-----------------------------------------------------------------------------
(* Memory *)

InArr(p) == p \in 0..(n-1)

InStack(s) == s \in 0..(NSTACK-1)

At(p) == arr[p+1]

TagAt(p) == tag[p+1]

Put(f, p, v) == [f EXCEPT ![p+1] = v]

SWAP_NoTemp(f, p, q) == [f EXCEPT ![p+1] = f[q+1]]

SWAP(f, p, q) == [f EXCEPT ![p+1] = f[q+1], ![q+1] = f[p+1]]

SWAP_IF_GREATER(f, p, q) == IF f[p+1] > f[q+1] THEN SWAP(f, p, q) ELSE f

\* An access outside the storage is undefined behaviour: nothing is known
\* of the program from there on.
Undefined ==
  /\ pc' = "ub"
  /\ UNCHANGED <<n, arr, ir, l, stack, stackp, i, j, a,
                 ins_n, ins_arr, ins_i, ins_j, value, arr0, pend, pre, ent, tag, vtag>>

-----------------------------------------------------------------------------
Init ==
  /\ arr \in Inputs
  /\ n = Cardinality(DOMAIN arr)
  /\ ir = n
  /\ l = 1
  /\ stack = [s \in 0..(NSTACK-1) |-> NoPtr]
  /\ stackp = 0
  /\ i = 0 /\ j = 0 /\ a = 0
  /\ ins_n = 0 /\ ins_arr = 0 /\ ins_i = 0 /\ ins_j = 0 /\ value = 0
  /\ pc = "loop"
  /\ arr0 = arr
  /\ pend = << >>
  /\ pre = arr
  /\ ent = arr
  /\ tag = [x \in DOMAIN arr |-> x - 1]
  /\ vtag = 0

-----------------------------------------------------------------------------
(* sort: the test at the head of the main loop *)

SmallEnough_Strict == ir - l + 1 < INSERTION_THRESHOLD

SmallEnough == ir - l < INSERTION_THRESHOLD

\* sort calls insertion_sort(ir - l + 1, l - 1)
CallInsertion ==
  /\ pc = "loop"
  /\ SmallEnough
  /\ ins_n' = ir - l + 1
  /\ ins_arr' = l - 1
  /\ ins_i' = (l - 1) + 1
  /\ pc' = "ins_for"
  /\ ent' = arr
  /\ tag' = [x \in DOMAIN arr |-> x - 1]
  /\ UNCHANGED <<n, arr, ir, l, stack, stackp, i, j, a, ins_j, value, arr0, pend, pre, vtag>>

-----------------------------------------------------------------------------
(* insertion_sort *)

InsLess_Reversed(v, w) == v > w

InsLess_OrEqual(v, w) == v <= w

InsLess(v, w) == v < w

\* for (i = arr+1; i < arr+n; i++) { value = *i; j = i;
InsFor ==
  /\ pc = "ins_for"
  /\ IF ins_i < ins_arr + ins_n
     THEN IF InArr(ins_i)
          THEN /\ value' = At(ins_i)
               /\ vtag' = TagAt(ins_i)
               /\ ins_j' = ins_i
               /\ pc' = "ins_while"
               /\ UNCHANGED <<n, arr, ir, l, stack, stackp, i, j, a,
                              ins_n, ins_arr, ins_i, arr0, pend, pre, ent, tag>>
          ELSE Undefined
     ELSE /\ pc' = "ret"
          /\ UNCHANGED <<n, arr, ir, l, stack, stackp, i, j, a,
                         ins_n, ins_arr, ins_i, ins_j, value, arr0, pend, pre, ent, tag, vtag>>

\* while (value < *(j-1)) { *j = *(j-1); if (--j == arr) break; }
\* and, on the break, *j = value; i++
InsShift ==
  /\ pc = "ins_while"
  /\ InArr(ins_j - 1) => InsLess(value, At(ins_j - 1))
  /\ IF InArr(ins_j - 1) /\ InArr(ins_j)
     THEN LET shifted  == Put(arr, ins_j, At(ins_j - 1))
              tshifted == Put(tag, ins_j, TagAt(ins_j - 1))
              broke    == (ins_j - 1 = ins_arr)
          IN  /\ arr' = IF broke THEN Put(shifted, ins_j - 1, value) ELSE shifted
              /\ tag' = IF broke THEN Put(tshifted, ins_j - 1, vtag) ELSE tshifted
              /\ ins_j' = ins_j - 1
              /\ ins_i' = IF broke THEN ins_i + 1 ELSE ins_i
              /\ pc' = IF broke THEN "ins_for" ELSE "ins_while"
              /\ UNCHANGED <<n, ir, l, stack, stackp, i, j, a,
                             ins_n, ins_arr, value, arr0, pend, pre, ent, vtag>>
     ELSE Undefined

\* the while test fails: *j = value; i++
InsStore ==
  /\ pc = "ins_while"
  /\ InArr(ins_j - 1)
  /\ ~InsLess(value, At(ins_j - 1))
  /\ IF InArr(ins_j)
     THEN /\ arr' = Put(arr, ins_j, value)
          /\ tag' = Put(tag, ins_j, vtag)
          /\ ins_i' = ins_i + 1
          /\ pc' = "ins_for"
          /\ UNCHANGED <<n, ir, l, stack, stackp, i, j, a,
                         ins_n, ins_arr, ins_j, value, arr0, pend, pre, ent, vtag>>
     ELSE Undefined

-----------------------------------------------------------------------------
(* sort: after insertion_sort returns *)

StackEmpty_Inverted == stackp # 0

StackEmpty == stackp = 0

\* if ( stackp == stack ) break;
Return ==
  /\ pc = "ret"
  /\ StackEmpty
  /\ pc' = "done"
  /\ UNCHANGED <<n, arr, ir, l, stack, stackp, i, j, a,
                 ins_n, ins_arr, ins_i, ins_j, value, arr0, pend, pre, ent, tag, vtag>>

PoppedL_SameSlot == stack[stackp]

\* ir = *stackp--;
PoppedIr == stack[stackp]

\* l = *stackp--;
PoppedL == stack[stackp - 1]

\* ir = *stackp--; l = *stackp--;
Pop ==
  /\ pc = "ret"
  /\ ~StackEmpty
  /\ IF /\ InStack(stackp) /\ InStack(stackp - 1)
        /\ PoppedIr # NoPtr /\ PoppedL # NoPtr
     THEN /\ ir' = PoppedIr
          /\ l' = PoppedL
          /\ stackp' = stackp - 2
          /\ pc' = "loop"
          /\ pend' = SubSeq(pend, 1, Len(pend) - 1)
          /\ UNCHANGED <<n, arr, stack, i, j, a,
                         ins_n, ins_arr, ins_i, ins_j, value, arr0, pre, ent, tag, vtag>>
     ELSE Undefined

-----------------------------------------------------------------------------
(* sort: pivot selection and partitioning *)

Center_OffByOne(pl, pir) == (pl + pir) \div 2

\* Offset of the center element, arr[((l-arr) + (ir-arr))/2-1].
Center(pl, pir) == (pl + pir) \div 2 - 1

MedianOfThree(f, pl, pir) ==
  LET s1 == SWAP(f, Center(pl, pir), pl)
      s2 == SWAP_IF_GREATER(s1, pl - 1, pir - 1)
      s3 == SWAP_IF_GREATER(s2, pl, pir - 1)
  IN  SWAP_IF_GREATER(s3, pl - 1, pl)

SelectPivot ==
  /\ pc = "loop"
  /\ ~SmallEnough
  /\ IF InArr(Center(l, ir)) /\ InArr(l) /\ InArr(l - 1) /\ InArr(ir - 1)
     THEN /\ arr' = MedianOfThree(arr, l, ir)
          /\ i' = l + 1
          /\ j' = ir
          /\ a' = arr'[l + 1]
          /\ pre' = arr
          /\ pc' = "scan_i"
          /\ UNCHANGED <<n, ir, l, stack, stackp,
                         ins_n, ins_arr, ins_i, ins_j, value, arr0, pend, ent, tag, vtag>>
     ELSE Undefined

ScanLess_OrEqual(x, y) == x <= y

ScanLess(x, y) == x < y

ScanGreater_OrEqual(x, y) == x >= y

ScanGreater(x, y) == x > y

\* while (*i++ < a);
ScanUp ==
  /\ pc = "scan_i"
  /\ IF InArr(i)
     THEN /\ i' = i + 1
          /\ pc' = IF ScanLess(At(i), a) THEN "scan_i" ELSE "scan_j"
          /\ UNCHANGED <<n, arr, ir, l, stack, stackp, j, a,
                         ins_n, ins_arr, ins_i, ins_j, value, arr0, pend, pre, ent, tag, vtag>>
     ELSE Undefined

\* while (*(j-- - 2) > a);
ScanDown ==
  /\ pc = "scan_j"
  /\ IF InArr(j - 2)
     THEN /\ j' = j - 1
          /\ pc' = IF ScanGreater(At(j - 2), a) THEN "scan_j" ELSE "cross"
          /\ UNCHANGED <<n, arr, ir, l, stack, stackp, i, a,
                         ins_n, ins_arr, ins_i, ins_j, value, arr0, pend, pre, ent, tag, vtag>>
     ELSE Undefined

\* if (j < i) break; is not taken: SWAP(i[-1], j[-1]);
Exchange ==
  /\ pc = "cross"
  /\ ~(j < i)
  /\ IF InArr(i - 1) /\ InArr(j - 1)
     THEN /\ arr' = SWAP(arr, i - 1, j - 1)
          /\ pc' = "scan_i"
          /\ UNCHANGED <<n, ir, l, stack, stackp, i, j, a,
                         ins_n, ins_arr, ins_i, ins_j, value, arr0, pend, pre, ent, tag, vtag>>
     ELSE Undefined

\* if (j < i) break;  l[0] = j[-1]; j[-1] = a; stackp += 2;
InsertPivot ==
  /\ pc = "cross"
  /\ j < i
  /\ IF InArr(l) /\ InArr(j - 1)
     THEN /\ arr' = Put(Put(arr, l, At(j - 1)), j - 1, a)
          /\ stackp' = stackp + 2
          /\ pc' = "push"
          /\ UNCHANGED <<n, ir, l, stack, i, j, a,
                         ins_n, ins_arr, ins_i, ins_j, value, arr0, pend, pre, ent, tag, vtag>>
     ELSE Undefined

RightIsLarger_Flipped == ir - i + 1 < j - l

RightIsLarger_Swapped == j - l >= ir - i + 1

\* if ( ir-i+1 >= j-l )
RightIsLarger == ir - i + 1 >= j - l

\* stackp[0] = ir; stackp[-1] = i; ir = j-1;
PushRight ==
  /\ pc = "push"
  /\ RightIsLarger
  /\ IF InStack(stackp) /\ InStack(stackp - 1)
     THEN /\ stack' = [stack EXCEPT ![stackp] = ir, ![stackp - 1] = i]
          /\ ir' = j - 1
          /\ pc' = "loop"
          /\ pend' = Append(pend, <<i, ir>>)
          /\ UNCHANGED <<n, arr, l, stackp, i, j, a,
                         ins_n, ins_arr, ins_i, ins_j, value, arr0, pre, ent, tag, vtag>>
     ELSE Undefined

\* stackp[0] = j-1; stackp[-1] = l; l = i;
PushLeft ==
  /\ pc = "push"
  /\ ~RightIsLarger
  /\ IF InStack(stackp) /\ InStack(stackp - 1)
     THEN /\ stack' = [stack EXCEPT ![stackp] = j - 1, ![stackp - 1] = l]
          /\ l' = i
          /\ pc' = "loop"
          /\ pend' = Append(pend, <<l, j - 1>>)
          /\ UNCHANGED <<n, arr, ir, stackp, i, j, a,
                         ins_n, ins_arr, ins_i, ins_j, value, arr0, pre, ent, tag, vtag>>
     ELSE Undefined

-----------------------------------------------------------------------------
Next ==
  \/ CallInsertion
  \/ InsFor
  \/ InsShift
  \/ InsStore
  \/ Return
  \/ Pop
  \/ SelectPivot
  \/ ScanUp
  \/ ScanDown
  \/ Exchange
  \/ InsertPivot
  \/ PushRight
  \/ PushLeft

Spec == Init /\ [][Next]_vars

\* sort is straight-line sequential code: it always takes its next step.
FairSpec == Spec /\ WF_vars(Next)

-----------------------------------------------------------------------------
(* Properties *)

Range(f) == { f[x] : x \in DOMAIN f }

Count(f, v) == Cardinality({ x \in DOMAIN f : f[x] = v })

NonDescending(f, lo, hi) == \A x \in lo..hi : \A y \in lo..hi : x < y => f[x] <= f[y]

\* C1: when sort(n, arr) returns, the sequence is non-descending: for all
\* i < j < n, arr[i] <= arr[j]; and sort does return normally (no undefined
\* behaviour on the way).
C1_SortedOnReturn ==
  /\ pc # "ub"
  /\ pc = "done" => NonDescending(arr, 1, n)

\* sort has returned for an input long enough to be partitioned that was
\* not in order on entry.
C1_Witness ==
  /\ pc = "done"
  /\ n > INSERTION_THRESHOLD
  /\ \E x \in 1..(n-1) : arr0[x] > arr0[x+1]
  /\ NonDescending(arr, 1, n)

\* C2: the sequence left by sort(n, arr) is a permutation of the input:
\* every value occurs in it exactly as many times as in the input, and no
\* position outside arr[0..n) is written.
C2_PermutationOnReturn ==
  /\ pc # "ub"
  /\ DOMAIN arr = 1..n
  /\ pc = "done" => \A v \in Range(arr0) \cup Range(arr) : Count(arr, v) = Count(arr0, v)

\* sort has returned for a partitioned input with duplicates, having moved
\* elements.
C2_Witness ==
  /\ pc = "done"
  /\ n > INSERTION_THRESHOLD
  /\ arr # arr0
  /\ \E x \in 1..n : Count(arr0, arr0[x]) > 1
  /\ \A v \in Range(arr0) : Count(arr, v) = Count(arr0, v)

\* C3: every call of sort terminates, and at the moment it returns the
\* partition stack is empty (stackp == stack).
C3_TerminatesWithEmptyStack ==
  /\ <>(pc = "done")
  /\ [](pc = "done" => stackp = 0)

\* sort has returned with an empty stack for an all-equal input, on which
\* both cursors stop on every element, after having used the stack.
C3_Witness ==
  /\ pc = "done"
  /\ stackp = 0
  /\ n > INSERTION_THRESHOLD
  /\ \A x \in 1..n : arr0[x] = arr0[1]
  /\ stack[2] # NoPtr

RECURSIVE CeilLog2From(_, _, _)
CeilLog2From(m, k, pow) == IF pow >= m THEN k ELSE CeilLog2From(m, k + 1, 2 * pow)

\* The least k with 2^k >= m.
CeilLog2(m) == CeilLog2From(m, 0, 1)

\* C4: for n >= 2 the number of stack slots in use (stackp - stack) never
\* exceeds 2*ceil(log2(n)).
C4_StackDepthBound ==
  /\ pc # "ub"
  /\ n >= 2 => stackp <= 2 * CeilLog2(n)

\* Two subranges are pending at once.
C4_Witness ==
  /\ pc = "loop"
  /\ stackp = 4
  /\ stackp <= 2 * CeilLog2(n)

\* C5: insertion_sort(n, arr) leaves arr[0..n) equal to the stable sort of
\* its input: non-descending, a permutation of the input subrange, equal
\* elements in the order they had on entry, nothing outside the subrange
\* changed; and it reads and writes no position before arr[0] or at/after
\* arr[n].
C5_InsertionStableSort ==
  /\ pc # "ub"
  /\ pc = "ins_for" /\ ins_i < ins_arr + ins_n =>
       ins_arr <= ins_i /\ ins_i < ins_arr + ins_n
  /\ pc = "ins_while" =>
       ins_arr <= ins_j - 1 /\ ins_j < ins_arr + ins_n
  /\ pc = "ret" =>
       LET lo == ins_arr + 1
           hi == ins_arr + ins_n
       IN  /\ NonDescending(arr, lo, hi)
           /\ \A x \in lo..hi : tag[x] + 1 \in lo..hi /\ arr[x] = ent[tag[x] + 1]
           /\ \A x \in lo..hi : \A y \in lo..hi :
                x < y => /\ tag[x] # tag[y]
                         /\ arr[x] = arr[y] => tag[x] < tag[y]
           /\ \A x \in (1..n) \ (lo..hi) : arr[x] = ent[x]

\* insertion_sort has returned after moving an element of a subrange that
\* holds equal values.
C5_Witness ==
  /\ pc = "ret"
  /\ arr # ent
  /\ \E x \in (ins_arr + 1)..(ins_arr + ins_n) : \E y \in (ins_arr + 1)..(ins_arr + ins_n) :
       x < y /\ arr[x] = arr[y] /\ tag[x] < tag[y]

\* C6 as stated: the current subrange is handed to insertion_sort exactly
\* when its length ir - l + 1 is strictly less than INSERTION_THRESHOLD, and
\* is partitioned when its length is INSERTION_THRESHOLD or more.
C6_Original ==
  [][pc = "loop" =>
       /\ pc' = "ins_for" <=> ir - l + 1 < INSERTION_THRESHOLD
       /\ pc' = "scan_i" <=> ir - l + 1 >= INSERTION_THRESHOLD]_vars

\* C6 amended: the current subrange is handed to insertion_sort exactly when
\* its length ir - l + 1 is at most INSERTION_THRESHOLD, and is partitioned
\* when it is longer than INSERTION_THRESHOLD.
C6_Amended ==
  [][pc = "loop" =>
       /\ pc' = "ins_for" <=> ir - l + 1 <= INSERTION_THRESHOLD
       /\ pc' = "scan_i" <=> ir - l + 1 > INSERTION_THRESHOLD]_vars

\* insertion_sort has just been called on a subrange of exactly
\* INSERTION_THRESHOLD elements.
C6_Witness ==
  /\ pc = "ins_for"
  /\ ins_i = ins_arr + 1
  /\ ins_n = INSERTION_THRESHOLD
  /\ ir - l + 1 = INSERTION_THRESHOLD

\* The partition scan is under way.
Scanning == pc \in {"scan_i", "scan_j", "cross"}

\* C7: during the partition scan of the subrange at offsets l-1 .. ir-1,
\* every position read or written through the cursors i and j lies in the
\* subrange, and sequence[l] <= pivot <= sequence[r] holds of its two ends.
C7_CursorsInSubrange ==
  /\ pc # "ub"
  /\ pc = "scan_i" => l - 1 <= i /\ i <= ir - 1
  /\ pc = "scan_j" => l - 1 <= j - 2 /\ j - 2 <= ir - 1
  /\ pc = "cross" => /\ l - 1 <= i - 1 /\ i - 1 <= ir - 1
                     /\ l - 1 <= j - 1 /\ j - 1 <= ir - 1
  /\ Scanning => At(l - 1) <= a /\ a <= At(ir - 1)

\* The low cursor went as far as it can: it was stopped by the last element
\* of the subrange, which equals the pivot.
C7_Witness ==
  /\ pc = "cross"
  /\ i - 1 = ir - 1
  /\ At(ir - 1) = a
  /\ l - 1 <= j - 1

\* The subranges still to be sorted at the head of the main loop, as pairs of
\* pointers <<l, ir>>: the current one and those on the stack.
Live == {<<0, l, ir>>} \cup { <<k, stack[2*k - 1], stack[2*k]>> : k \in 1..(stackp \div 2) }

\* C8: at every iteration of the main loop the current subrange and the
\* pending ones are pairwise disjoint, every element below a subrange is <=
\* every element inside it and every element above it is >= every element
\* inside it; and right after the pivot is put at its place p, the elements
\* of [l, p-1] are <= the pivot and those of [p+1, r] are >= the pivot.
C8_PartitionInvariant ==
  /\ pc # "ub"
  /\ pc = "loop" =>
       /\ \A s \in Live : \A t \in Live :
            s[1] # t[1] => s[3] < t[2] \/ t[3] < s[2]
       /\ \A s \in Live : 1 <= s[2] /\ s[3] <= n
       /\ \A s \in Live : \A y \in s[2]..s[3] :
            /\ \A x \in 1..(s[2] - 1) : arr[x] <= arr[y]
            /\ \A x \in (s[3] + 1)..n : arr[x] >= arr[y]
  /\ pc = "push" =>
       /\ l <= j /\ j <= ir
       /\ arr[j] = a
       /\ \A x \in l..(j - 1) : arr[x] <= a
       /\ \A x \in (j + 1)..ir : arr[x] >= a

\* The main loop is at its head with two subranges pending and elements on
\* both sides of the current subrange.
C8_Witness ==
  /\ pc = "loop"
  /\ stackp = 4
  /\ l > 1
  /\ ir < n
  /\ l < ir

Max3(x, y, z) == IF x >= y /\ x >= z THEN x ELSE IF y >= z THEN y ELSE z

Min3(x, y, z) == IF x <= y /\ x <= z THEN x ELSE IF y <= z THEN y ELSE z

Median3(x, y, z) == x + y + z - Max3(x, y, z) - Min3(x, y, z)

\* Pivot selection has just been done.
Selected == pc = "scan_i" /\ i = l + 1 /\ j = ir

\* C9: after pivot selection on the subrange at offsets l-1 .. ir-1 with
\* center mid, the value at the second position (the pivot) is the median of
\* the values that were at the first, center and last positions, first <=
\* pivot <= last holds, the center holds the value that was at the second
\* position, and no other position has changed.
C9_MedianOfThree ==
  Selected =>
    LET first  == l
        second == l + 1
        mid    == ((l - 1) + (ir - 1)) \div 2 + 1
        last   == ir
    IN  /\ arr[second] = Median3(pre[first], pre[mid], pre[last])
        /\ a = arr[second]
        /\ arr[first] <= arr[second] /\ arr[second] <= arr[last]
        /\ arr[mid] = pre[second]
        /\ \A x \in (1..n) \ {first, second, mid, last} : arr[x] = pre[x]

\* Pivot selection has just been done on three distinct values of which the
\* center one was not the median.
C9_Witness ==
  /\ Selected
  /\ Cardinality({pre[l], pre[(l + ir) \div 2], pre[ir]}) = 3
  /\ pre[(l + ir) \div 2] # a
  /\ arr[l + 1] = a

\* C10: a partition pushes exactly one pair; the pushed subrange is at least
\* as long as the one sort continues with; both are strictly shorter than
\* the partitioned subrange, lie inside it and exclude the pivot's position.
C10_LargerDeferred ==
  [][/\ pc = "cross" /\ pc' # "scan_i" => pc' = "push" /\ stackp' = stackp + 2
     /\ pc = "push" =>
          LET plo == stack'[stackp - 1]
              phi == stack'[stackp]
          IN  /\ pc' = "loop"
              /\ stackp' = stackp
              /\ \A s \in (DOMAIN stack) \ {stackp - 1, stackp} : stack'[s] = stack[s]
              /\ phi - plo + 1 >= ir' - l' + 1
              /\ phi - plo + 1 < ir - l + 1
              /\ ir' - l' + 1 < ir - l + 1
              /\ l <= plo /\ phi <= ir
              /\ l <= l' /\ ir' <= ir
              /\ j < plo \/ phi < j
              /\ j < l' \/ ir' < j
              /\ phi < l' \/ ir' < plo]_vars

\* A partition has just pushed a subrange strictly longer than the one sort
\* continues with.
C10_Witness ==
  /\ pc = "loop"
  /\ stackp >= 2
  /\ \/ ir = j - 1 /\ stack[stackp - 1] = i /\ stack[stackp] > ir
     \/ l = i /\ stack[stackp] = j - 1 /\ stack[stackp - 1] < l
  /\ stack[stackp] - stack[stackp - 1] > ir - l

\* C11: no subrange of at most one element is ever pushed on the partition
\* stack or selected for pivoting and partitioning; sort(0, arr) and
\* sort(1, arr) push and pop nothing, touch no element of the sequence and
\* return normally.
C11_NoTrivialSubrange ==
  /\ [](/\ pc # "ub"
        /\ pc # "push" =>
             \A k \in 1..(stackp \div 2) : stack[2*k] - stack[2*k - 1] + 1 >= 2
        /\ Scanning \/ pc = "push" => ir - l + 1 >= 2
        /\ n <= 1 =>
             /\ pc \in {"loop", "ins_for", "ret", "done"}
             /\ pc = "ins_for" => ~(ins_i < ins_arr + ins_n)
             /\ stackp = 0
             /\ \A s \in DOMAIN stack : stack[s] = NoPtr
             /\ arr = arr0)
  /\ [][pc = "loop" /\ pc' = "scan_i" => ir - l + 1 >= 2]_vars
  /\ [][pc = "push" => stack'[stackp] - stack'[stackp - 1] + 1 >= 2]_vars
  /\ n <= 1 ~> pc = "done"

\* A partition left a single element on one side: it was not pushed, the
\* longer side was, and sort goes on with the single element.
C11_Witness ==
  /\ pc = "loop"
  /\ stackp = 2
  /\ ir = l
  /\ stack[2] - stack[1] + 1 >= 2
  /\ \/ ir = j - 1 /\ stack[1] = i
     \/ l = i /\ stack[2] = j - 1

\* The number of pending subranges the stack has room for: slot 0 is not
\* used and each subrange takes two slots.
Capacity == (NSTACK - 2) \div 2

\* C12: every read and write of stack[NSTACK] uses an index in 0..NSTACK-1.
\* With k subranges pending a push writes the slots 2k+1 and 2k+2 (slot 0 is
\* never used) and a pop reads back the pair written by the most recent
\* unmatched push, nothing else writes the stack, and the slots of a push
\* are in bounds if and only if the number of pending subranges, that push
\* included, is at most (NSTACK-2)/2 = 24.
C12_StackAccess ==
  /\ [](/\ pc # "ub"
        /\ stack[0] = NoPtr
        /\ stackp = 2 * Len(pend) + (IF pc = "push" THEN 2 ELSE 0)
        /\ \A k \in 1..Len(pend) : stack[2*k - 1] = pend[k][1] /\ stack[2*k] = pend[k][2]
        /\ Len(pend) + (IF pc = "push" THEN 1 ELSE 0) <= Capacity
        /\ Capacity = 24
        /\ \A k \in 0..NSTACK : InStack(2*k + 1) /\ InStack(2*k + 2) <=> k + 1 <= Capacity)
  /\ [][pc = "push" =>
          LET k == Len(pend)
          IN  /\ InStack(2*k + 1) /\ InStack(2*k + 2)
              /\ Len(pend') = k + 1
              /\ SubSeq(pend', 1, k) = pend
              /\ stack' = [stack EXCEPT ![2*k + 1] = pend'[k + 1][1],
                                        ![2*k + 2] = pend'[k + 1][2]]]_vars
  /\ [][pc = "ret" /\ pc' # "done" =>
          LET k == Len(pend)
          IN  /\ k >= 1
              /\ InStack(2*k - 1) /\ InStack(2*k)
              /\ <<l', ir'>> = pend[k]
              /\ <<l', ir'>> = <<stack[2*k - 1], stack[2*k]>>
              /\ stackp' = 2 * (k - 1)
              /\ pend' = SubSeq(pend, 1, k - 1)]_vars
  /\ [][stack' # stack => pc = "push"]_vars

\* With one subrange still pending, a pop has just read back the second
\* pair from the slots 3 and 4.
C12_Witness ==
  /\ pc = "loop"
  /\ Len(pend) = 1
  /\ stackp = 2
  /\ stack[0] = NoPtr
  /\ stack[3] # NoPtr
  /\ <<l, ir>> = <<stack[3], stack[4]>>
  /\ <<l, ir>> # pend[1]

====
